---- MODULE Spec2Model ----
(***************************************************************************)
(* Model of the ai_agents package: the process-wide agent registry         *)
(* (__init__.py), the agent contract with its Echo variant, and the         *)
(* sequential workflow runner (agent.py).                                   *)
(*                                                                          *)
(* Python values are tagged records, so that isinstance() and truthiness    *)
(* are computed rather than assumed.  A text is a sequence of fragments;    *)
(* string concatenation is \o.                                              *)
(***************************************************************************)
EXTENDS Integers, Sequences, FiniteSets, TLC

VARIABLES AGENT_REGISTRY, sys_modules, imported, discoverCalls,
          lastRegistered,
          pc, spec, initial_payload, payload, idx, events, ret

vars == <<AGENT_REGISTRY, sys_modules, imported, discoverCalls,
          lastRegistered,
          pc, spec, initial_payload, payload, idx, events, ret>>

regVars == <<AGENT_REGISTRY, sys_modules, imported, discoverCalls,
             lastRegistered>>

runVars == <<pc, spec, initial_payload, payload, idx, events>>

(* ------------------------------ bounds --------------------------------- *)
MaxSteps == 2
MaxDiscover == 2

(* --------------------------- Python values ----------------------------- *)
None == [tag |-> "None"]
Scalar == [tag |-> "str"]
EmptyMap == [k \in {} |-> <<>>]
Dict(f) == [tag |-> "dict", d |-> f]
List(s) == [tag |-> "list", items |-> s]

IsDict(x) == x.tag = "dict"
IsList(x) == x.tag = "list"

\* Python truthiness of None and of a dict, as used by `x or {}`.
Truthy(x) == IsDict(x) /\ DOMAIN x.d # {}
OrEmptyDict(x) == IF Truthy(x) THEN x ELSE Dict(EmptyMap)

DictGet(f, k, default) == IF k \in DOMAIN f THEN f[k] ELSE default
DictSet(f, k, v) == [x \in DOMAIN f \cup {k} |-> IF x = k THEN v ELSE f[x]]

\* str(n) for a non-negative integer, as an f-string renders it.
Digits == <<"0", "1", "2", "3", "4", "5", "6", "7", "8", "9">>
RECURSIVE ToStr(_)
ToStr(n) == IF n < 10 THEN <<Digits[n + 1]>>
            ELSE ToStr(n \div 10) \o <<Digits[(n % 10) + 1]>>

(* ------------------------- results of a call --------------------------- *)
NoError == [type |-> "none", msg |-> <<>>]
Return(v) == [status |-> "ok", value |-> v, error |-> NoError]
Raise(t, m) == [status |-> "raise", value |-> None,
                error |-> [type |-> t, msg |-> m]]
\* Variant: the error is caught and wrapped in another one.
Reraise_Wrapped(r) == [status |-> "raise", value |-> None,
                       error |-> [type |-> "RuntimeError", msg |-> r.error.msg]]

\* An error of a callee leaving the caller as it is (no try/except around it).
Reraise(r) == [status |-> "raise", value |-> None, error |-> r.error]

(* ------------------------------ classes -------------------------------- *)
\* A class object: its __name__ and whether it inherits EchoAgent.process
\* (overrides = TRUE) or only BaseAgent.process (overrides = FALSE).
ClassNames == {"EchoAgent", "Dummy"}
Classes == [name : ClassNames, overrides : BOOLEAN]
EchoAgent == [name |-> "EchoAgent", overrides |-> TRUE]

(* ------------------------------ registry ------------------------------- *)
\* Variant: an identifier already present keeps its class (setdefault).
register_agent_FirstWins(reg, cls) ==
    [n \in DOMAIN reg \cup {cls.name} |->
        IF n \in DOMAIN reg THEN reg[n] ELSE cls]

register_agent(reg, cls) ==
    [n \in DOMAIN reg \cup {cls.name} |-> IF n = cls.name THEN cls ELSE reg[n]]

\* Variant: AGENT_REGISTRY.get(name), which yields None for a missing key.
get_agent_class_Get(reg, name) ==
    IF name \in DOMAIN reg THEN Return(reg[name]) ELSE Return(None)

get_agent_class(reg, name) ==
    IF name \in DOMAIN reg
    THEN Return(reg[name])
    ELSE Raise("KeyError", <<"Agent '", name, "' is not registered.">>)

(* ------------------------------ discovery ------------------------------ *)
\* pkgutil.iter_modules over a package's __path__: <<mod_name, is_pkg>>.
PackageContents(package) ==
    IF package = "ai_agents" THEN << <<"agent", FALSE>> >> ELSE <<>>

\* The register_agent decorations a module executes when it is first loaded.
ModuleRegisters(full_name) ==
    IF full_name = "ai_agents.agent" THEN <<EchoAgent>> ELSE <<>>

FullName(package, mod_name) ==
    IF package = "ai_agents" /\ mod_name = "agent" THEN "ai_agents.agent"
    ELSE "unknown"

RECURSIVE RegisterAll(_, _)
RegisterAll(reg, classes) ==
    IF classes = <<>> THEN reg
    ELSE RegisterAll(register_agent(reg, Head(classes)), Tail(classes))

\* importlib.import_module: a module already in sys.modules is not re-run.
import_module(st, full_name) ==
    IF full_name \in st.mods THEN st
    ELSE [reg |-> RegisterAll(st.reg, ModuleRegisters(full_name)),
          mods |-> st.mods \cup {full_name},
          calls |-> st.calls \o ModuleRegisters(full_name)]

RECURSIVE autodiscover_agents(_, _)
RECURSIVE DiscoverEntries(_, _, _)
DiscoverEntries(st, package, entries) ==
    IF entries = <<>> THEN st
    ELSE LET e == Head(entries)
             full_name == FullName(package, e[1])
             loaded == import_module(st, full_name)
             after == IF e[2] THEN autodiscover_agents(loaded, full_name)
                      ELSE loaded
         IN DiscoverEntries(after, package, Tail(entries))

\* Variant: the registry is emptied before the walk, relying on the imports
\* to fill it again.
autodiscover_agents_Clear(st, package) ==
    DiscoverEntries([st EXCEPT !.reg = EmptyMap], package,
                    PackageContents(package))

autodiscover_agents(st, package) ==
    DiscoverEntries(st, package, PackageContents(package))

(* ---------------------------- agent contract --------------------------- *)
\* BaseAgent.__init__: self.config = config or {}
BaseAgent_init(config) == OrEmptyDict(config)

\* Variant: the base operation returns its argument instead of raising.
BaseAgent_process_PassThrough(self_config, p) == Return(p)

BaseAgent_process(self_config, p) ==
    Raise("NotImplementedError", <<"Sub-classes must implement process.">>)

\* f"{prefix} {payload.get('input', '')}"
EchoMessage(self_config, p) ==
    DictGet(self_config.d, "prefix", <<"Echo:">>) \o <<" ">>
        \o DictGet(p.d, "input", <<>>)

\* result = dict(payload); result["message"] = ...; return result
EchoAgent_process(self_config, p) ==
    Return(Dict(DictSet(p.d, "message", EchoMessage(self_config, p))))

\* Variant: result = payload, so the message is written into the caller's
\* object.
EchoAgent_process_arg_InPlace(self_config, p) ==
    Dict(DictSet(p.d, "message", EchoMessage(self_config, p)))

\* The caller's payload object once process has returned: process works on
\* the copy dict(payload), so the object passed in keeps its contents.
EchoAgent_process_arg(self_config, p) == p

\* Method resolution: cls(config).process(p)
Process(cls, self_config, p) ==
    IF cls.overrides THEN EchoAgent_process(self_config, p)
    ELSE BaseAgent_process(self_config, p)

ProcessArg(cls, self_config, p) ==
    IF cls.overrides THEN EchoAgent_process_arg(self_config, p) ELSE p

(* ---------------------------- workflow runner -------------------------- *)
Running == [status |-> "running", value |-> None, error |-> NoError]
Event(kind, pos) == [ev |-> kind, pos |-> pos]

\* Lines 110-111: the shape check of the loaded document.
TopLevelMalformed(doc) == ~IsDict(doc) \/ "agents" \notin DOMAIN doc.d

\* Line 116: the shape check of one element of the step list.
StepMalformed(agent_def) ==
    ~IsDict(agent_def) \/ "name" \notin DOMAIN agent_def.d

\* Variant: no shape check, so that spec["agents"] itself fails on a
\* document without the key.
CheckTopLevel_KeyError(doc) ==
    IF TopLevelMalformed(doc) THEN Raise("KeyError", <<"agents">>)
    ELSE Return(doc.d["agents"])

\* Variant: every element of the step list is checked before the loop starts.
CheckTopLevel_ValidateAll(doc) ==
    IF TopLevelMalformed(doc)
    THEN Raise("ValueError",
               <<"Workflow YAML must contain a top-level agents list.">>)
    ELSE LET agents == doc.d["agents"]
             bad == IF IsList(agents)
                    THEN {i \in 1..Len(agents.items) :
                             StepMalformed(agents.items[i])}
                    ELSE {}
         IN IF bad = {} THEN Return(agents)
            ELSE Raise("ValueError",
                       <<"Agent definition at position ">>
                           \o ToStr(CHOOSE i \in bad : \A j \in bad : i <= j)
                           \o <<" is malformed.">>)

\* Lines 110-111: the document is rejected, or its step list is handed on.
CheckTopLevel(doc) ==
    IF TopLevelMalformed(doc)
    THEN Raise("ValueError",
               <<"Workflow YAML must contain a top-level agents list.">>)
    ELSE Return(doc.d["agents"])

\* Variant: enumerate without start=1, positions counted from 0.
MalformedStepError_ZeroBased(k) ==
    Raise("ValueError", <<"Agent definition at position ">> \o ToStr(k - 1)
                            \o <<" is malformed.">>)

\* Line 117: f"Agent definition at position {idx} is malformed."
MalformedStepError(k) ==
    Raise("ValueError", <<"Agent definition at position ">> \o ToStr(k)
                            \o <<" is malformed.">>)

\* Variant: the agent is constructed without the step's config.
LoopBody_NoConfig(reg, agent_def, k, cur) ==
    IF StepMalformed(agent_def)
    THEN [ev |-> <<>>, out |-> MalformedStepError(k)]
    ELSE LET AgentCls == get_agent_class(reg, agent_def.d["name"])
         IN IF AgentCls.status = "raise"
            THEN [ev |-> <<Event("resolve", k)>>, out |-> Reraise(AgentCls)]
            ELSE [ev |-> <<Event("resolve", k), Event("construct", k),
                           Event("process", k)>>,
                  out |-> Process(AgentCls.value, BaseAgent_init(None), cur)]

\* One iteration of the loop of run_workflow, at 1-based position k, on the
\* current payload cur.  ev lists the registry lookups, constructions and
\* process invocations the iteration performs, in program order.
LoopBody(reg, agent_def, k, cur) ==
    IF StepMalformed(agent_def)
    THEN [ev |-> <<>>, out |-> MalformedStepError(k)]
    ELSE LET name == agent_def.d["name"]
             config == DictGet(agent_def.d, "config", Dict(EmptyMap))
             AgentCls == get_agent_class(reg, name)
         IN IF AgentCls.status = "raise"
            THEN [ev |-> <<Event("resolve", k)>>, out |-> Reraise(AgentCls)]
            ELSE [ev |-> <<Event("resolve", k), Event("construct", k),
                           Event("process", k)>>,
                  out |-> Process(AgentCls.value, BaseAgent_init(config), cur)]

(* ------------------------------ inputs --------------------------------- *)
StepNames == ClassNames \cup {"NonExistentAgent"}
StepConfigs == {None, Dict("prefix" :> <<"[A]">>), Dict("prefix" :> <<"[B]">>)}

Elements ==
    {Scalar, Dict("config" :> Dict(EmptyMap))}
    \cup {Dict("name" :> n) : n \in StepNames}
    \cup {Dict("name" :> n @@ "config" :> c) : n \in StepNames, c \in StepConfigs}

StepLists == UNION {[1..k -> Elements] : k \in 0..MaxSteps}

Docs ==
    {None, List(<<>>), Dict("not_agents" :> List(<<>>)), Dict("agents" :> None)}
    \cup {Dict("agents" :> List(s)) : s \in StepLists}

Payloads ==
    {Dict(EmptyMap),
     Dict("input" :> <<"payload">>),
     Dict("input" :> <<"hi">> @@ "message" :> <<"old">>),
     Dict("message" :> <<"old">> @@ "other" :> <<"z">>)}

InitialPayloads == {None} \cup Payloads
CtorConfigs == {None, Dict(EmptyMap), Dict("prefix" :> <<">>">>)}

(* ------------------------------ state ---------------------------------- *)
\* pc is the position of the single thread of control: "idle" between calls
\* of the package's functions, "loop" inside the loop of run_workflow,
\* "returned" / "raised" when a call has just handed ret to its caller.
NoCall == [op |-> "none", args |-> <<>>, out |-> Running]
Call(op, args, out) == [op |-> op, args |-> args, out |-> out]
PcAfter(out) == IF out.status = "ok" THEN "returned" ELSE "raised"

\* Module ai_agents/__init__.py has run up to line 19.
Init ==
    /\ AGENT_REGISTRY = EmptyMap
    /\ sys_modules = {}
    /\ imported = FALSE
    /\ discoverCalls = 0
    /\ lastRegistered = EmptyMap
    /\ pc = "idle"
    /\ spec = None
    /\ initial_payload = None
    /\ payload = None
    /\ idx = 0
    /\ events = <<>>
    /\ ret = NoCall

Discovered ==
    autodiscover_agents([reg |-> AGENT_REGISTRY, mods |-> sys_modules,
                         calls |-> <<>>], "ai_agents")

\* History: the class most recently passed to register_agent, per __name__.
RECURSIVE NoteRegistrations(_, _)
NoteRegistrations(last, classes) ==
    IF classes = <<>> THEN last
    ELSE NoteRegistrations(
             [n \in DOMAIN last \cup {Head(classes).name} |->
                 IF n = Head(classes).name THEN Head(classes) ELSE last[n]],
             Tail(classes))

\* Line 69 of __init__.py: the discovery run at package import.
ImportPackage ==
    /\ ~imported
    /\ imported' = TRUE
    /\ AGENT_REGISTRY' = Discovered.reg
    /\ sys_modules' = Discovered.mods
    /\ lastRegistered' = NoteRegistrations(lastRegistered, Discovered.calls)
    /\ discoverCalls' = 1
    /\ UNCHANGED <<runVars, ret>>

\* A later call of autodiscover_agents().
Discover ==
    /\ imported /\ pc = "idle"
    /\ discoverCalls < MaxDiscover
    /\ discoverCalls' = discoverCalls + 1
    /\ AGENT_REGISTRY' = Discovered.reg
    /\ sys_modules' = Discovered.mods
    /\ lastRegistered' = NoteRegistrations(lastRegistered, Discovered.calls)
    /\ ret' = Call("autodiscover_agents", <<"ai_agents">>, Return(None))
    /\ pc' = "returned"
    /\ UNCHANGED <<imported, spec, initial_payload, payload, idx, events>>

Register(cls) ==
    /\ imported /\ pc = "idle"
    /\ AGENT_REGISTRY' = register_agent(AGENT_REGISTRY, cls)
    /\ lastRegistered' = NoteRegistrations(lastRegistered, <<cls>>)
    /\ ret' = Call("register_agent", <<cls>>, Return(cls))
    /\ pc' = "returned"
    /\ UNCHANGED <<sys_modules, imported, discoverCalls,
                   spec, initial_payload, payload, idx, events>>

Lookup(name) ==
    /\ imported /\ pc = "idle"
    /\ LET out == get_agent_class(AGENT_REGISTRY, name)
       IN /\ ret' = Call("get_agent_class", <<name>>, out)
          /\ pc' = PcAfter(out)
    /\ UNCHANGED <<regVars, spec, initial_payload, payload, idx, events>>

\* cls(config).process(p), called directly; args[3] is the caller's payload
\* object as passed, args[4] the same object after the call.
DirectProcess(cls, config, p) ==
    /\ imported /\ pc = "idle"
    /\ LET self_config == BaseAgent_init(config)
           out == Process(cls, self_config, p)
       IN /\ ret' = Call("process",
                         <<cls, config, p, ProcessArg(cls, self_config, p)>>,
                         out)
          /\ pc' = PcAfter(out)
    /\ UNCHANGED <<regVars, spec, initial_payload, payload, idx, events>>

\* run_workflow, lines 107-115: load, top-level check, initial payload,
\* entry of the loop.
RunStart(doc, init) ==
    /\ imported /\ pc = "idle"
    /\ spec' = doc
    /\ initial_payload' = init
    /\ idx' = 0
    /\ events' = <<>>
    /\ IF CheckTopLevel(doc).status = "raise"
       THEN /\ pc' = "raised"
            /\ payload' = None
            /\ ret' = Call("run_workflow", <<>>, CheckTopLevel(doc))
       ELSE /\ payload' = OrEmptyDict(init)
            /\ IF IsList(CheckTopLevel(doc).value)
               THEN /\ pc' = "loop"
                    /\ ret' = Call("run_workflow", <<>>, Running)
               ELSE /\ pc' = "raised"
                    /\ ret' = Call("run_workflow", <<>>, Raise("TypeError",
                              <<"'NoneType' object is not iterable">>))
    /\ UNCHANGED regVars

Steps == spec.d["agents"].items

\* run_workflow, lines 115-127: one iteration of the loop.
RunStep ==
    /\ pc = "loop"
    /\ idx < Len(Steps)
    /\ LET k == idx + 1
           body == LoopBody(AGENT_REGISTRY, Steps[k], k, payload)
       IN /\ idx' = k
          /\ events' = events \o body.ev
          /\ IF body.out.status = "ok"
             THEN /\ payload' = body.out.value
                  /\ pc' = "loop"
                  /\ ret' = ret
             ELSE /\ payload' = payload
                  /\ pc' = "raised"
                  /\ ret' = Call("run_workflow", <<>>, body.out)
    /\ UNCHANGED <<regVars, spec, initial_payload>>

\* run_workflow, line 129.
RunReturn ==
    /\ pc = "loop"
    /\ idx = Len(Steps)
    /\ pc' = "returned"
    /\ ret' = Call("run_workflow", <<>>, Return(payload))
    /\ UNCHANGED <<regVars, spec, initial_payload, payload, idx, events>>

\* The caller has taken the result or the error; the frame of the call is
\* gone and control is back between calls.
Resume ==
    /\ pc \in {"returned", "raised"}
    /\ pc' = "idle"
    /\ spec' = None
    /\ initial_payload' = None
    /\ payload' = None
    /\ idx' = 0
    /\ events' = <<>>
    /\ ret' = NoCall
    /\ UNCHANGED regVars

\* Control is between two calls of the package's functions.
Idle == imported /\ pc = "idle"

Next ==
    \/ ImportPackage
    \/ Discover
    \/ Idle /\ \E cls \in Classes : Register(cls)
    \/ Idle /\ \E name \in StepNames : Lookup(name)
    \/ Idle /\ \E cls \in Classes, config \in CtorConfigs, p \in Payloads :
                  DirectProcess(cls, config, p)
    \/ Idle /\ \E doc \in Docs, init \in InitialPayloads : RunStart(doc, init)
    \/ RunStep
    \/ RunReturn
    \/ Resume

Spec == Init /\ [][Next]_vars

(* ======================== properties of the runner ===================== *)
RunOver == ret.op = "run_workflow" /\ pc \in {"returned", "raised"}

StepConfigOf(step) ==
    IF "config" \in DOMAIN step.d THEN step.d["config"] ELSE Dict(EmptyMap)

\* process_n(... process_1(p) ...), the step list taken from its last element.
RECURSIVE Compose(_, _, _)
Compose(reg, steps, p) ==
    IF steps = <<>> THEN p
    ELSE LET n == Len(steps)
         IN Process(reg[steps[n].d["name"]],
                    BaseAgent_init(StepConfigOf(steps[n])),
                    Compose(reg, SubSeq(steps, 1, n - 1), p)).value

\* Each of the positions 1..n resolved, constructed and processed once, in order.
EventsOfSteps(n) ==
    [j \in 1..(3 * n) |->
        Event(<<"resolve", "construct", "process">>[((j - 1) % 3) + 1],
              ((j - 1) \div 3) + 1)]

TwoEchoCase ==
    /\ Steps = <<Dict("name" :> "EchoAgent" @@ "config" :> Dict("prefix" :> <<"[A]">>)),
                 Dict("name" :> "EchoAgent" @@ "config" :> Dict("prefix" :> <<"[B]">>))>>
    /\ initial_payload = Dict("input" :> <<"payload">>)
    /\ AGENT_REGISTRY["EchoAgent"] = EchoAgent

\* C1: a run that returns has folded the step list from the left: its result
\* is process_n(...process_1(initial)...) with each step resolved, constructed
\* and processed exactly once in list order; the empty list returns the
\* initial payload; two Echo steps [A], [B] on {input: payload} end with the
\* message "[B] payload".
C1_LeftFold ==
    (pc = "returned" /\ ret.op = "run_workflow") =>
        LET start == IF initial_payload.tag = "None" THEN Dict(EmptyMap)
                     ELSE initial_payload
        IN /\ ret.out.value = Compose(AGENT_REGISTRY, Steps, start)
           /\ events = EventsOfSteps(Len(Steps))
           /\ (Steps = <<>> /\ initial_payload.tag = "dict"
                  => ret.out.value = initial_payload)
           /\ (TwoEchoCase
                  => ret.out.value.d["message"] = <<"[B]", " ", "payload">>)

C1_Witness ==
    /\ pc = "returned" /\ ret.op = "run_workflow"
    /\ TwoEchoCase
    /\ ret.out.value.d["message"] = <<"[B]", " ", "payload">>

(* ======================= properties of the registry ==================== *)
\* C2: every identifier registered at least once resolves to the class most
\* recently registered under it, a lookup of it returns that class, and
\* register_agent itself returns its argument without raising.
C2_LastWriteWins ==
    /\ \A n \in DOMAIN lastRegistered :
          get_agent_class(AGENT_REGISTRY, n) = Return(lastRegistered[n])
    /\ (ret.op = "get_agent_class" /\ ret.args[1] \in DOMAIN lastRegistered)
          => ret.out = Return(lastRegistered[ret.args[1]])
    /\ ret.op = "register_agent" => ret.out = Return(ret.args[1])

\* EchoAgent was registered at import by agent.py; a lookup now returns the
\* class that replaced it, while Dummy is registered too.
C2_Witness ==
    /\ ret.op = "get_agent_class" /\ ret.args[1] = "EchoAgent"
    /\ ret.out.status = "ok"
    /\ ret.out.value = [name |-> "EchoAgent", overrides |-> FALSE]
    /\ "Dummy" \in DOMAIN AGENT_REGISTRY

IsIn(x, seq) == \E i \in 1..Len(seq) : seq[i] = x

\* C3: a lookup of an identifier that is not a key of the registry raises
\* KeyError with the identifier in its message, returns no class and leaves
\* the registry as it was.
C3_UnknownLookupRaises ==
    [][(pc = "idle" /\ ret'.op = "get_agent_class"
          /\ ret'.args[1] \notin DOMAIN AGENT_REGISTRY)
        => /\ pc' = "raised"
           /\ ret'.out.status = "raise"
           /\ ret'.out.error.type = "KeyError"
           /\ IsIn(ret'.args[1], ret'.out.error.msg)
           /\ ret'.out.value = None
           /\ AGENT_REGISTRY' = AGENT_REGISTRY]_vars

C3_Witness ==
    /\ pc = "raised" /\ ret.op = "get_agent_class"
    /\ ret.args[1] = "NonExistentAgent"
    /\ ret.out.error.type = "KeyError"


(* ================== properties of run_workflow's errors ================ *)
LacksAgentsKey(doc) == ~IsDict(doc) \/ "agents" \notin DOMAIN doc.d
LacksName(e) == ~IsDict(e) \/ "name" \notin DOMAIN e.d
HasStepList == ~LacksAgentsKey(spec) /\ IsList(spec.d["agents"])

\* C4: a document that is not a mapping, or a mapping without the agents
\* key, makes the run raise ValueError with no lookup, construction or
\* process invocation, and no payload returned.
C4_MissingAgentsKey ==
    (ret.op = "run_workflow" /\ LacksAgentsKey(spec))
        => /\ pc = "raised"
           /\ ret.out.status = "raise"
           /\ ret.out.error.type = "ValueError"
           /\ ret.out.value = None
           /\ events = <<>>

C4_Witness ==
    /\ pc = "raised" /\ ret.op = "run_workflow"
    /\ spec = Dict("not_agents" :> List(<<>>))
    /\ initial_payload = Dict("input" :> <<"payload">>)
    /\ ret.out.error.type = "ValueError"

\* Step j names a registered class whose process returns.
StepSucceeds(j) ==
    /\ ~LacksName(Steps[j])
    /\ Steps[j].d["name"] \in DOMAIN AGENT_REGISTRY
    /\ AGENT_REGISTRY[Steps[j].d["name"]].overrides

IsFirstMalformed(m) ==
    /\ m \in 1..Len(Steps)
    /\ LacksName(Steps[m])
    /\ \A j \in 1..(m - 1) : ~LacksName(Steps[j])

\* C5: when the first malformed element sits at position m and every step
\* before it resolves and processes without error, the run raises ValueError
\* whose message names m, and nothing at position m is resolved or invoked.
C5_MalformedStepPosition ==
    (ret.op = "run_workflow" /\ HasStepList) =>
        \A m \in 1..Len(Steps) :
            (IsFirstMalformed(m) /\ \A j \in 1..(m - 1) : StepSucceeds(j))
              => /\ pc = "loop" => idx < m
                 /\ pc # "returned"
                 /\ pc = "raised"
                      => /\ ret.out.error.type = "ValueError"
                         /\ ret.out.error.msg =
                              <<"Agent definition at position ", Digits[m + 1],
                                " is malformed.">>
                         /\ \A i \in 1..Len(events) : events[i].pos < m

\* The second element is the malformed one; the first was an Echo step.
C5_Witness ==
    /\ pc = "raised" /\ ret.op = "run_workflow" /\ HasStepList
    /\ Len(Steps) = 2 /\ IsFirstMalformed(2) /\ StepSucceeds(1)
    /\ ret.out.error.msg =
         <<"Agent definition at position ", "2", " is malformed.">>

(* ====================== properties of the Echo agent =================== *)
ConfiguredPrefix(c) ==
    IF IsDict(c) /\ "prefix" \in DOMAIN c.d THEN c.d["prefix"] ELSE <<"Echo:">>

InputOf(p) == IF "input" \in DOMAIN p.d THEN p.d["input"] ELSE <<>>

\* C6: EchoAgent(c).process(p) returns a mapping equal to p on every key
\* but message, with message = prefix + " " + input (defaults "Echo:" and
\* the empty string), and p keeps its contents.
C6_EchoProcess ==
    (ret.op = "process" /\ ret.args[1].overrides) =>
        LET c == ret.args[2]
            p == ret.args[3]
            r == ret.out.value
        IN /\ ret.out.status = "ok"
           /\ IsDict(r)
           /\ DOMAIN r.d = DOMAIN p.d \cup {"message"}
           /\ \A key \in DOMAIN p.d \ {"message"} : r.d[key] = p.d[key]
           /\ r.d["message"] = ConfiguredPrefix(c) \o <<" ">> \o InputOf(p)
           /\ ret.args[4] = p

\* A payload that already carries a message, processed with a custom prefix.
C6_Witness ==
    /\ ret.op = "process" /\ ret.args[1].overrides
    /\ ret.args[2] = Dict("prefix" :> <<">>">>)
    /\ ret.args[3] = Dict("input" :> <<"hi">> @@ "message" :> <<"old">>)
    /\ ret.out.value.d["message"] = <<">>", " ", "hi">>

(* ===================== properties of a failing run ===================== *)
IsFirstFailure(k) ==
    /\ k \in 1..Len(Steps)
    /\ ~StepSucceeds(k)
    /\ \A j \in 1..(k - 1) : StepSucceeds(j)

Unregistered(k) == Steps[k].d["name"] \notin DOMAIN AGENT_REGISTRY

\* C7: when step k is the first to fail, by an unregistered name or by its
\* process raising, the run ends with exactly that error, returns no
\* payload, has handled steps 1..k-1 once each and touched no later step.
C7_FirstErrorTerminal ==
    (RunOver /\ HasStepList) =>
        \A k \in 1..Len(Steps) :
            (IsFirstFailure(k) /\ ~LacksName(Steps[k]))
              => LET name == Steps[k].d["name"]
                     before == Compose(AGENT_REGISTRY, SubSeq(Steps, 1, k - 1),
                                       OrEmptyDict(initial_payload))
                 IN /\ pc = "raised"
                    /\ ret.out.status = "raise"
                    /\ ret.out.value = None
                    /\ idx = k
                    /\ IF Unregistered(k)
                       THEN /\ ret.out.error =
                                 get_agent_class(AGENT_REGISTRY, name).error
                            /\ ret.out.error.type = "KeyError"
                            /\ events = EventsOfSteps(k - 1)
                                           \o <<Event("resolve", k)>>
                       ELSE /\ ret.out.error =
                                 Process(AGENT_REGISTRY[name],
                                         BaseAgent_init(StepConfigOf(Steps[k])),
                                         before).error
                            /\ events = EventsOfSteps(k)

\* An Echo step has produced a payload, then the second step's name is not
\* registered.
C7_Witness ==
    /\ pc = "raised" /\ ret.op = "run_workflow" /\ HasStepList
    /\ Len(Steps) = 2 /\ IsFirstFailure(2) /\ ~LacksName(Steps[2])
    /\ Unregistered(2)
    /\ "message" \in DOMAIN payload.d
    /\ ret.out.value = None

(* ======================== properties of discovery ====================== *)
\* C8: no step removes an identifier from the registry, EchoAgent is
\* registered from the import on, and a call of autodiscover_agents returns
\* without raising.
C8_DiscoveryMonotone ==
    [][/\ DOMAIN AGENT_REGISTRY \subseteq DOMAIN AGENT_REGISTRY'
       /\ imported' => "EchoAgent" \in DOMAIN AGENT_REGISTRY'
       /\ ret'.op = "autodiscover_agents" => ret'.out.status = "ok"]_vars

\* The second discovery run has returned, with Dummy registered in between.
C8_Witness ==
    /\ ret.op = "autodiscover_agents" /\ pc = "returned"
    /\ discoverCalls = 2
    /\ DOMAIN AGENT_REGISTRY = {"EchoAgent", "Dummy"}

(* ==================== properties of the base operation ================= *)
RaisedNotImplemented ==
    /\ ret.out.status = "raise"
    /\ ret.out.error.type = "NotImplementedError"
    /\ ret.out.value = None

NamesUnspecialized(k) ==
    /\ ~LacksName(Steps[k])
    /\ Steps[k].d["name"] \in DOMAIN AGENT_REGISTRY
    /\ ~AGENT_REGISTRY[Steps[k].d["name"]].overrides

\* C9 as stated: process of a class that does not override it raises
\* NotImplementedError, and every run with a step naming such a class ends
\* in that error.
C9_AnyRunNamingUnspecialized ==
    /\ (ret.op = "process" /\ ~ret.args[1].overrides) => RaisedNotImplemented
    /\ (RunOver /\ HasStepList /\ \E k \in 1..Len(Steps) : NamesUnspecialized(k))
          => pc = "raised" /\ RaisedNotImplemented

\* C9: process of a class that does not override it raises
\* NotImplementedError for every payload and configuration, and a run that
\* invokes process on a step naming such a class ends in that error.
C9_UnspecializedRaises ==
    /\ (ret.op = "process" /\ ~ret.args[1].overrides)
          => pc = "raised" /\ RaisedNotImplemented
    /\ (RunOver /\ HasStepList
          /\ \E i \in 1..Len(events) :
                events[i].ev = "process" /\ NamesUnspecialized(events[i].pos))
          => pc = "raised" /\ RaisedNotImplemented

\* A run whose second step names Dummy, after an Echo step.
C9_Witness ==
    /\ pc = "raised" /\ ret.op = "run_workflow" /\ HasStepList
    /\ Len(Steps) = 2 /\ StepSucceeds(1) /\ NamesUnspecialized(2)
    /\ events[Len(events)] = Event("process", 2)
    /\ RaisedNotImplemented

(* ================= order of validation and execution =================== *)
RaisedMalformedSpec ==
    /\ ret.op = "run_workflow" /\ pc = "raised"
    /\ ret.out.error.type = "ValueError"

\* C10 as stated: whenever a run fails with ValueError for a malformed
\* specification, no agent's process has been invoked during the run.
C10_ValidationBeforeExecution ==
    RaisedMalformedSpec => \A i \in 1..Len(events) : events[i].ev # "process"

\* C10: the agents key is checked before any step is handled, and the
\* element at position k is checked when the loop reaches it: a run failing
\* on the missing key has invoked nothing, and a run failing on the element
\* at position k names k and has resolved, constructed and processed exactly
\* the steps 1..k-1.
C10_ValidationInterleaved ==
    RaisedMalformedSpec =>
        IF LacksAgentsKey(spec) THEN events = <<>>
        ELSE /\ idx \in 1..Len(Steps)
             /\ LacksName(Steps[idx])
             /\ ret.out.error.msg = <<"Agent definition at position ">>
                                      \o ToStr(idx) \o <<" is malformed.">>
             /\ events = EventsOfSteps(idx - 1)

\* The run fails on its second element after the first step was processed.
C10_Witness ==
    /\ RaisedMalformedSpec /\ HasStepList
    /\ idx = 2 /\ LacksName(Steps[2])
    /\ events = <<Event("resolve", 1), Event("construct", 1),
                  Event("process", 1)>>

====
